---- MODULE Spec2Model ----
(***************************************************************************)
(* The packaging pipeline declared by forge.config.js: the configuration   *)
(* object (publisher prerelease flag) and the three lifecycle hooks        *)
(* generateAssets, prePackage and packageAfterCopy, run over a filesystem  *)
(* by the packaging framework.                                             *)
(*                                                                         *)
(* Strings are sequences of one-character strings, file contents are       *)
(* sequences of bytes, paths are sequences of segments.                    *)
(***************************************************************************)
EXTENDS Integers, Sequences, FiniteSets, TLC

\* ------------------------------------------------------------------ bounds

\* Longest initial content of a license file, in bytes.
MaxLen == 1
\* Build invocations run one after the other over the same filesystem.
MaxRuns == 2
\* Most fixture files missing from the tree at the start.
MaxMissing == 2

\* ----------------------------------------------------------------- strings

RECURSIVE StartsWith(_, _)
\* Whether s begins with the characters of sub.
StartsWith(s, sub) ==
  IF sub = <<>> THEN TRUE
  ELSE IF s = <<>> THEN FALSE
  ELSE Head(s) = Head(sub) /\ StartsWith(Tail(s), Tail(sub))

\* The search as a test of the end of the string: a prerelease tag is "beta".
IncludesAtEnd(s, sub) ==
  Len(s) >= Len(sub) /\ SubSeq(s, Len(s) - Len(sub) + 1, Len(s)) = sub

RECURSIVE Includes(_, _)
\* String.prototype.includes(sub): a scan over the start positions.
Includes(s, sub) ==
  IF StartsWith(s, sub) THEN TRUE
  ELSE IF s = <<>> THEN FALSE
  ELSE Includes(Tail(s), sub)

RECURSIVE Join(_, _)
\* Array.prototype.join(sep): the separator between the elements only.
Join(parts, sep) ==
  IF parts = <<>> THEN <<>>
  ELSE IF Len(parts) = 1 THEN parts[1]
  ELSE parts[1] \o sep \o Join(Tail(parts), sep)

\* The separator with single line breaks.
SEPSingleBreaks == <<"\n", "-", " ", "-", " ", "-", "\n">>

\* The separator of the merged license file.
SEP == <<"\n", "\n", "-", " ", "-", " ", "-", "\n", "\n">>

\* The literal the prerelease flag searches the version for.
Beta == <<"b", "e", "t", "a">>

\* ------------------------------------------------------------------- bytes

\* An invalid UTF-8 byte, and the three bytes that encode U+FFFD (one symbol).
BadByte == "0xFF"
ReplBytes == "0xEFBFBD"
ReplChar == "U+FFFD"

\* Buffer.prototype.toString(): UTF-8 decoding, an invalid byte becomes U+FFFD.
DecodeByte(b) == IF b \in {BadByte, ReplBytes} THEN ReplChar ELSE b

Decode(bytes) == [i \in 1..Len(bytes) |-> DecodeByte(bytes[i])]

\* fs.writeFileSync of a string: UTF-8 encoding.
EncodeChar(c) == IF c = ReplChar THEN ReplBytes ELSE c

Encode(text) == [i \in 1..Len(text) |-> EncodeChar(text[i])]

\* ------------------------------------------------------------------- paths

RECURSIVE Normalize(_, _)
\* path.normalize of an absolute path: "." is dropped, ".." pops a segment
\* (and is dropped at the root).
Normalize(done, todo) ==
  IF todo = <<>> THEN done
  ELSE IF Head(todo) = "." THEN Normalize(done, Tail(todo))
  ELSE IF Head(todo) = ".." THEN
    Normalize(IF done = <<>> THEN done ELSE SubSeq(done, 1, Len(done) - 1), Tail(todo))
  ELSE Normalize(Append(done, Head(todo)), Tail(todo))

\* path.join(base, rel), and the resolution of a relative path against cwd.
PathJoin(base, rel) == Normalize(<<>>, base \o rel)

\* path.sep of the host.
PathSep == "/"

RECURSIVE PathString(_)
\* The string of an absolute path.
PathString(p) ==
  IF p = <<>> THEN <<>> ELSE <<PathSep, Head(p)>> \o PathString(Tail(p))

\* __dirname: the directory of forge.config.js.
Dirname == <<"proj">>

\* buildPath: the staging directory the framework hands to packageAfterCopy.
BuildPath == <<"tmp", "Komorebi UI-win32-x64", "resources", "app">>

\* process.cwd() of the build.
Cwds == {Dirname, <<"ci", "work dir">>}

SchemaRel(i) == IF i = 1 THEN <<".", "komorebi", "schema.json">>
                ELSE <<".", "komorebi", "schema.asc.json">>

IfaceRel(i) == IF i = 1 THEN <<".", "src", "JsonSettings.interface.ts">>
               ELSE <<".", "src", "YamlSettings.interface.ts">>

SchemaPath(c, i) == PathJoin(c, SchemaRel(i))
IfacePath(c, i) == PathJoin(c, IfaceRel(i))

OwnLicensePath == PathJoin(Dirname, <<"LICENSE">>)
KomorebiLicensePath == PathJoin(Dirname, <<"komorebi", "LICENSE">>)
ElectronLicensePath == PathJoin(BuildPath, <<"..", "..", "LICENSE">>)

\* The three license reads, in the order of the code.
LicensePaths == <<OwnLicensePath, KomorebiLicensePath, ElectronLicensePath>>

\* The four artifacts, in the order of the copies: source (under __dirname)
\* and destination (under buildPath).
ArtifactRel ==
  << <<"komorebi", "target", "x86_64-pc-windows-msvc", "release", "komorebi.exe">>,
     <<"komorebi", "target", "x86_64-pc-windows-msvc", "release", "komorebic.exe">>,
     <<"komorebi", "komorebi.sample.ahk">>,
     <<"komorebi", "komorebic.lib.ahk">> >>

ArtifactName == <<"komorebi.exe", "komorebic.exe", "komorebi.sample.ahk", "komorebic.lib.ahk">>

Artifacts == 1..4

ArtifactSrc(a) == PathJoin(Dirname, ArtifactRel[a])
\* The second copy pasted from the first, its destination name not changed.
ArtifactDstPasted(a) == PathJoin(BuildPath, <<ArtifactName[IF a = 2 THEN 1 ELSE a]>>)

ArtifactDst(a) == PathJoin(BuildPath, <<ArtifactName[a]>>)

\* The output folder handed to the platform script.
OutFolderRel == <<"out", "Komorebi UI-win32-x64">>

OutFolderPath(c) == PathJoin(c, OutFolderRel)

Paths ==
  {SchemaPath(c, i) : c \in Cwds, i \in 1..2} \cup
  {IfacePath(c, i) : c \in Cwds, i \in 1..2} \cup
  {OutFolderPath(c) : c \in Cwds} \cup
  {LicensePaths[k] : k \in 1..3} \cup
  {ArtifactSrc(a) : a \in Artifacts} \cup
  {ArtifactDst(a) : a \in Artifacts}


\* ------------------------------------------------------------------- files

\* A file: present with its bytes, or absent. A directory is present with none.
File(bytes) == [exists |-> TRUE, data |-> bytes]
NoFile == [exists |-> FALSE, data |-> <<>>]
Directory == File(<<>>)

\* The bytes a license file may hold at the start.
ByteAlphabet == {"a", BadByte}
Contents == UNION {[1..k -> ByteAlphabet] : k \in 0..MaxLen}

SchemaData(i) == IF i = 1 THEN <<"{", "j", "}">> ELSE <<"{", "y", "}">>
LicenseData == <<(<<"O">>), (<<"K">>), (<<"E">>)>>
ArtifactData(a) == <<"bin", ArtifactName[a]>>
StaleData == <<"s", "t", "a", "l", "e">>

\* The complete fixture tree for a build run in directory c: two schemas, three
\* licenses, four artifacts and the output folder; nothing generated, an empty
\* staging directory.
Fixture(c) ==
  [p \in Paths |->
     IF p = OutFolderPath(c) THEN Directory
     ELSE IF \E i \in 1..2 : p = SchemaPath(c, i)
       THEN File(SchemaData(CHOOSE i \in 1..2 : p = SchemaPath(c, i)))
     ELSE IF \E k \in 1..3 : p = LicensePaths[k]
       THEN File(LicenseData[CHOOSE k \in 1..3 : p = LicensePaths[k]])
     ELSE IF \E a \in Artifacts : p = ArtifactSrc(a)
       THEN File(ArtifactData(CHOOSE a \in Artifacts : p = ArtifactSrc(a)))
     ELSE NoFile]

\* The files a hook writes or copies to.
Outputs(c) == {IfacePath(c, i) : i \in 1..2} \cup {ArtifactDst(a) : a \in Artifacts}

\* The files a hook reads and does not create.
Inputs(c) ==
  {SchemaPath(c, i) : i \in 1..2} \cup {LicensePaths[k] : k \in 1..3}
    \cup {ArtifactSrc(a) : a \in Artifacts} \cup {OutFolderPath(c)}

\* package.json's version field.
Versions ==
  { <<"2", ".", "0", ".", "0", "-", "b", "e", "t", "a">>,
    <<"1", ".", "2", ".", "0", "-", "b", "e", "t", "a", ".", "1">>,
    <<"1", ".", "2", ".", "0", "-", "b", "e", "t", "a", "x">>,
    <<"1", ".", "2", ".", "0">>,
    <<"1", ".", "2", ".", "0", "-", "b", "e", "t">>,
    <<"1", ".", "2", ".", "0", "-", "B", "E", "T", "A">>,
    <<"b", "e", "-", "t", "a">> }

FixtureVersion == <<"2", ".", "0", ".", "0", "-", "b", "e", "t", "a">>

\* The target platform the framework passes to the hooks.
Platforms == {"win32", "linux", "darwin"}

\* Exit codes of the platform script.
ExitCodes == {0, 1}

\* ------------------------------------------------------------------- state

VARIABLES
  version,     \* package_json.version
  platform,    \* the hooks' platform argument
  cwd,         \* process.cwd()
  files,       \* the filesystem: path -> file
  loaded,      \* whether forge.config.js has been evaluated in this invocation
  prerelease,  \* config.publishers[0].config.prerelease
  run,         \* the build invocation, 1..MaxRuns
  stage,       \* the framework's position in the lifecycle, 1..4
  pc,          \* the statement the running hook is at
  status,      \* "running", "success" or "aborted"
  value,       \* the awaited result of compileFromFile
  licenses,    \* ownLicense, komorebiLicense, electronLicense as read so far
  inflight,    \* the external asynchronous operations still running
  calls,       \* the invocations of runPwshScript in this invocation
  log,         \* the events of this invocation, in order
  entered,     \* hook -> times entered in this invocation
  completed,   \* the hooks that returned in this invocation, in order
  snap,        \* the filesystem when the running hook was entered
  orig,        \* the filesystem at the start
  merges,      \* license writes completed since the start
  aborts       \* invocations aborted since the start

vars ==
  <<version, platform, cwd, files, loaded, prerelease, run, stage, pc, status,
    value, licenses, inflight, calls, log, entered, completed, snap, orig,
    merges, aborts>>

\* The lifecycle points of one build invocation, in the framework's order.
Lifecycle == <<"generateAssets", "prePackage", "packageAfterCopy">>

\* A hook declared under a misspelt key, which the framework never calls.
DeclaredHooksMisspelt == {"generateAssets", "prepackage", "packageAfterCopy"}

\* The hooks config.hooks declares.
DeclaredHooks == {"generateAssets", "prePackage", "packageAfterCopy"}

At(at, i) == [at |-> at, i |-> i]

\* The first statement of a hook.
FirstPc(h) ==
  IF h = "generateAssets" THEN At("ga_compile", 1)
  ELSE IF h = "prePackage" THEN At("pp_invoke", 0)
  ELSE At("pac_read", 1)

NoHooksEntered == [h \in DeclaredHooks \cup {Lifecycle[s] : s \in 1..3} |-> 0]

\* What every invocation starts from.
Fresh ==
  /\ loaded = FALSE
  /\ prerelease = FALSE
  /\ stage = 1
  /\ pc = At("load", 0)
  /\ status = "running"
  /\ value = <<>>
  /\ licenses = <<>>
  /\ inflight = {}
  /\ calls = <<>>
  /\ log = <<>>
  /\ entered = NoHooksEntered
  /\ completed = <<>>

\* License files of any content, the rest of the fixture complete.
InitContents ==
  /\ version = FixtureVersion
  /\ platform = "win32"
  /\ cwd = Dirname
  /\ \E own \in Contents, wrapped \in Contents, framework \in Contents :
       files = [Fixture(Dirname) EXCEPT ![OwnLicensePath] = File(own),
                                      ![KomorebiLicensePath] = File(wrapped),
                                      ![ElectronLicensePath] = File(framework)]

\* Up to MaxMissing input files missing; the outputs absent or left by an
\* earlier build.
InitPresence ==
  /\ version = FixtureVersion
  /\ platform = "win32"
  /\ cwd = Dirname
  /\ \E missing \in SUBSET Inputs(Dirname), stale \in BOOLEAN :
       /\ Cardinality(missing) <= MaxMissing
       /\ files = [p \in Paths |->
                     IF p \in missing THEN NoFile
                     ELSE IF stale /\ p \in Outputs(Dirname) THEN File(StaleData)
                     ELSE Fixture(Dirname)[p]]

\* Any version, target platform and working directory over a complete fixture.
InitConfig ==
  /\ version \in Versions
  /\ platform \in Platforms
  /\ cwd \in Cwds
  /\ files = Fixture(cwd)

Init ==
  /\ InitContents \/ InitPresence \/ InitConfig
  /\ Fresh
  /\ run = 1
  /\ snap = files
  /\ orig = files
  /\ merges = 0
  /\ aborts = 0

\* ------------------------------------------------------------------ events

\* An event of the log: a hook entered or left, an operation started, ended,
\* done (a synchronous one) or thrown.
E(op, i, ev) == [op |-> op, i |-> i, ev |-> ev]

\* The output of compileFromFile for a schema: an opaque, deterministic text.
Compiled(schema) == <<"/", "*", "t", "s", "*", "/">> \o Decode(schema)

\* The argument string of the platform script.
FolderArg(c) ==
  <<"-", "F", "o", "l", "d", "e", "r", " ">> \o PathString(PathJoin(c, OutFolderRel))

\* The exit codes the platform script may end with: not 0 when the folder it
\* is given does not exist.
ScriptExits(fs, c) == IF fs[OutFolderPath(c)].exists THEN ExitCodes ELSE ExitCodes \ {0}

\* runPwshScript's promise rejects when the script fails.
RunPwshScriptRejects(exit) == exit # 0

\* --------------------------------------------------------------- framework

\* An exception or a rejected await in a hook: nothing catches it, the hook's
\* promise rejects and the framework aborts the invocation.
Reject(ev) ==
  /\ status' = "aborted"
  /\ pc' = At("done", 0)
  /\ log' = Append(log, ev)
  /\ aborts' = aborts + 1

\* A statement of a hook is done and the hook goes on to the next.
Continue(ev, next) ==
  /\ pc' = next
  /\ log' = Append(log, ev)
  /\ UNCHANGED <<status, aborts>>

\* What no statement of a hook changes.
hookFrame ==
  <<version, platform, cwd, loaded, prerelease, run, stage, entered, completed, snap, orig>>

\* require('./forge.config.js'): the configuration object is built.
Load ==
  /\ pc = At("load", 0)
  /\ loaded' = TRUE
  /\ prerelease' = Includes(version, Beta)
  /\ pc' = At("lifecycle", 0)
  /\ UNCHANGED <<version, platform, cwd, files, run, stage, status, value, licenses,
                 inflight, calls, log, entered, completed, snap, orig, merges, aborts>>

\* The framework reaches a lifecycle point and calls the hook declared for it.
EnterHook ==
  /\ pc = At("lifecycle", 0)
  /\ stage <= Len(Lifecycle)
  /\ IF Lifecycle[stage] \in DeclaredHooks
       THEN /\ pc' = FirstPc(Lifecycle[stage])
            /\ entered' = [entered EXCEPT ![Lifecycle[stage]] = @ + 1]
            /\ log' = Append(log, E(Lifecycle[stage], 0, "enter"))
            /\ snap' = files
            /\ stage' = stage
       ELSE /\ stage' = stage + 1
            /\ UNCHANGED <<pc, entered, log, snap>>
  /\ UNCHANGED <<version, platform, cwd, files, loaded, prerelease, run, status, value,
                 licenses, inflight, calls, completed, orig, merges, aborts>>

\* The hook's promise resolves: the framework goes on to the next point.
Return ==
  /\ pc = At("return", 0)
  /\ completed' = Append(completed, Lifecycle[stage])
  /\ log' = Append(log, E(Lifecycle[stage], 0, "exit"))
  /\ stage' = stage + 1
  /\ pc' = At("lifecycle", 0)
  /\ UNCHANGED <<version, platform, cwd, files, loaded, prerelease, run, status, value,
                 licenses, inflight, calls, entered, snap, orig, merges, aborts>>

\* Past the last lifecycle point: the artifact is produced.
Finish ==
  /\ pc = At("lifecycle", 0)
  /\ stage > Len(Lifecycle)
  /\ status' = "success"
  /\ pc' = At("done", 0)
  /\ UNCHANGED <<version, platform, cwd, files, loaded, prerelease, run, stage, value,
                 licenses, inflight, calls, log, entered, completed, snap, orig, merges,
                 aborts>>

\* Another build invocation over the same tree and staging directory: a new
\* process, the configuration not yet loaded.
NewInvocation ==
  /\ pc = At("done", 0)
  /\ run < MaxRuns
  /\ run' = run + 1
  /\ loaded' = FALSE
  /\ prerelease' = FALSE
  /\ stage' = 1
  /\ pc' = At("load", 0)
  /\ status' = "running"
  /\ value' = <<>>
  /\ licenses' = <<>>
  /\ inflight' = {}
  /\ calls' = <<>>
  /\ log' = <<>>
  /\ entered' = NoHooksEntered
  /\ completed' = <<>>
  /\ snap' = files
  /\ UNCHANGED <<version, platform, cwd, files, orig, merges, aborts>>

\* -------------------------------------------------------------- filesystem

WriteOutcomes == {"ok", "untouched", "truncated"}

\* fs.writeFileSync(path, text): the file holds the encoded text; or the call
\* throws, before the file is opened (untouched) or after it was truncated.
WriteFileSync(fs, path, text, outcome) ==
  IF outcome = "ok" THEN [fs EXCEPT ![path] = File(Encode(text))]
  ELSE IF outcome = "truncated" THEN [fs EXCEPT ![path] = File(<<>>)]
  ELSE fs

CopyOutcomes == {"ok", "untouched", "removed"}

\* fs.copyFileSync(src, dst): dst holds the bytes of src; or the call throws:
\* always, and with dst untouched, when src is missing; else with dst untouched
\* or removed.
CopyFileSync(fs, src, dst, outcome) ==
  IF ~fs[src].exists THEN fs
  ELSE IF outcome = "ok" THEN [fs EXCEPT ![dst] = File(fs[src].data)]
  ELSE IF outcome = "removed" THEN [fs EXCEPT ![dst] = NoFile]
  ELSE fs

CopyThrows(fs, src, outcome) == ~fs[src].exists \/ outcome # "ok"

\* ---------------------------------------------------------- generateAssets

\* compileFromFile(schema) is called; the hook awaits its promise.
GA_CompileStart(i) ==
  /\ pc = At("ga_compile", i)
  /\ inflight' = inflight \cup {E("compile", i, "start")}
  /\ Continue(E("compile", i, "start"), At("ga_await", i))
  /\ UNCHANGED <<files, value, licenses, calls, merges>>
  /\ UNCHANGED hookFrame

\* The compiler settles: it rejects when the schema is missing (or invalid),
\* else the hook resumes with the generated text.
GA_CompileSettle(i) ==
  /\ pc = At("ga_await", i)
  /\ inflight' = inflight \ {E("compile", i, "start")}
  /\ \E valid \in BOOLEAN :
       IF files[SchemaPath(cwd, i)].exists /\ valid
         THEN /\ value' = Compiled(files[SchemaPath(cwd, i)].data)
              /\ Continue(E("compile", i, "end"), At("ga_write", i))
         ELSE /\ Reject(E("compile", i, "throw"))
              /\ UNCHANGED value
  /\ UNCHANGED <<files, licenses, calls, merges>>
  /\ UNCHANGED hookFrame

\* fs.writeFileSync(interface file, the awaited text).
GA_Write(i) ==
  /\ pc = At("ga_write", i)
  /\ \E outcome \in WriteOutcomes :
       /\ files' = WriteFileSync(files, IfacePath(cwd, i), value, outcome)
       /\ IF outcome = "ok"
            THEN Continue(E("write", i, "done"),
                          IF i = 1 THEN At("ga_compile", 2) ELSE At("ga_build", 0))
            ELSE Reject(E("write", i, "throw"))
  /\ UNCHANGED <<value, licenses, inflight, calls, merges>>
  /\ UNCHANGED hookFrame

\* The import without its await: the hook returns while the build runs.
GA_BuildStartNotAwaited ==
  /\ pc = At("ga_build", 0)
  /\ inflight' = inflight \cup {E("build", 0, "start")}
  /\ Continue(E("build", 0, "start"), At("return", 0))
  /\ UNCHANGED <<files, value, licenses, calls, merges>>
  /\ UNCHANGED hookFrame

\* import('./scripts/build.mjs') starts the build script; the hook awaits it.
GA_BuildStart ==
  /\ pc = At("ga_build", 0)
  /\ inflight' = inflight \cup {E("build", 0, "start")}
  /\ Continue(E("build", 0, "start"), At("ga_awaitbuild", 0))
  /\ UNCHANGED <<files, value, licenses, calls, merges>>
  /\ UNCHANGED hookFrame

\* The build script settles; then the hook returns.
GA_BuildSettle ==
  /\ pc = At("ga_awaitbuild", 0)
  /\ inflight' = inflight \ {E("build", 0, "start")}
  /\ \E built \in BOOLEAN :
       IF built THEN Continue(E("build", 0, "end"), At("return", 0))
       ELSE Reject(E("build", 0, "throw"))
  /\ UNCHANGED <<files, value, licenses, calls, merges>>
  /\ UNCHANGED hookFrame

\* -------------------------------------------------------------- prePackage

\* The call behind a test of the platform argument: on a platform other than
\* Windows the hook returns at once.
PP_InvokeOnWindows ==
  /\ pc = At("pp_invoke", 0)
  /\ IF platform = "win32"
       THEN /\ calls' = Append(calls, [script |-> "prePackage.ps1", args |-> FolderArg(cwd)])
            /\ inflight' = inflight \cup {E("script", 0, "start")}
            /\ Continue(E("script", 0, "start"), At("pp_await", 0))
       ELSE /\ Continue(E("script", 0, "skip"), At("return", 0))
            /\ UNCHANGED <<calls, inflight>>
  /\ UNCHANGED <<files, value, licenses, merges>>
  /\ UNCHANGED hookFrame

\* runPwshScript('prePackage.ps1', `-Folder ${path.join(cwd, 'out/...')}`) is
\* called, whatever the platform argument; the hook awaits its promise.
PP_Invoke ==
  /\ pc = At("pp_invoke", 0)
  /\ calls' = Append(calls, [script |-> "prePackage.ps1", args |-> FolderArg(cwd)])
  /\ inflight' = inflight \cup {E("script", 0, "start")}
  /\ Continue(E("script", 0, "start"), At("pp_await", 0))
  /\ UNCHANGED <<files, value, licenses, merges>>
  /\ UNCHANGED hookFrame

\* The script exits; a rejection is caught and the hook returns all the same.
PP_SettleCaught ==
  /\ pc = At("pp_await", 0)
  /\ inflight' = inflight \ {E("script", 0, "start")}
  /\ \E exit \in ScriptExits(files, cwd) :
       Continue(E("script", exit, "end"), At("return", 0))
  /\ UNCHANGED <<files, value, licenses, calls, merges>>
  /\ UNCHANGED hookFrame

\* The script exits; a rejection is not caught.
PP_Settle ==
  /\ pc = At("pp_await", 0)
  /\ inflight' = inflight \ {E("script", 0, "start")}
  /\ \E exit \in ScriptExits(files, cwd) :
       IF RunPwshScriptRejects(exit) THEN Reject(E("script", exit, "throw"))
       ELSE Continue(E("script", exit, "end"), At("return", 0))
  /\ UNCHANGED <<files, value, licenses, calls, merges>>
  /\ UNCHANGED hookFrame

\* -------------------------------------------------------- packageAfterCopy

\* fs.readFileSync(license k).toString(): throws when the file is missing.
PAC_Read(k) ==
  /\ pc = At("pac_read", k)
  /\ IF files[LicensePaths[k]].exists
       THEN /\ licenses' = Append(licenses, Decode(files[LicensePaths[k]].data))
            /\ Continue(E("read", k, "done"),
                        IF k < 3 THEN At("pac_read", k + 1) ELSE At("pac_write", 0))
       ELSE /\ Reject(E("read", k, "throw"))
            /\ UNCHANGED licenses
  /\ UNCHANGED <<files, value, inflight, calls, merges>>
  /\ UNCHANGED hookFrame

\* The write guarded against merging twice: skipped when the framework
\* license already starts with the own license and a separator.
PAC_WriteLicenseOnce ==
  /\ pc = At("pac_write", 0)
  /\ IF StartsWith(licenses[3], licenses[1] \o SEP)
       THEN /\ Continue(E("merge", 0, "done"), At("pac_copy", 1))
            /\ UNCHANGED <<files, merges>>
       ELSE \E outcome \in WriteOutcomes :
              /\ files' = WriteFileSync(files, ElectronLicensePath, Join(licenses, SEP), outcome)
              /\ IF outcome = "ok"
                   THEN /\ Continue(E("merge", 0, "done"), At("pac_copy", 1))
                        /\ merges' = merges + 1
                   ELSE /\ Reject(E("merge", 0, "throw"))
                        /\ UNCHANGED merges
  /\ UNCHANGED <<value, licenses, inflight, calls>>
  /\ UNCHANGED hookFrame

\* fs.writeFileSync(framework license, [own, komorebi, electron].join(SEP)).
PAC_WriteLicense ==
  /\ pc = At("pac_write", 0)
  /\ \E outcome \in WriteOutcomes :
       /\ files' = WriteFileSync(files, ElectronLicensePath, Join(licenses, SEP), outcome)
       /\ IF outcome = "ok"
            THEN /\ Continue(E("merge", 0, "done"), At("pac_copy", 1))
                 /\ merges' = merges + 1
            ELSE /\ Reject(E("merge", 0, "throw"))
                 /\ UNCHANGED merges
  /\ UNCHANGED <<value, licenses, inflight, calls>>
  /\ UNCHANGED hookFrame

\* The copy in a try/catch: a failed copy is logged and the hook goes on.
PAC_CopyCaught(a) ==
  /\ pc = At("pac_copy", a)
  /\ \E outcome \in CopyOutcomes :
       /\ files' = CopyFileSync(files, ArtifactSrc(a), ArtifactDst(a), outcome)
       /\ Continue(E("copy", a, IF CopyThrows(files, ArtifactSrc(a), outcome)
                                  THEN "throw" ELSE "done"),
                   IF a < 4 THEN At("pac_copy", a + 1) ELSE At("return", 0))
  /\ UNCHANGED <<value, licenses, inflight, calls, merges>>
  /\ UNCHANGED hookFrame

\* The copy behind an existence check: a missing artifact is skipped.
PAC_CopyIfExists(a) ==
  /\ pc = At("pac_copy", a)
  /\ \E outcome \in CopyOutcomes :
       /\ files' = CopyFileSync(files, ArtifactSrc(a), ArtifactDst(a), outcome)
       /\ IF files[ArtifactSrc(a)].exists /\ CopyThrows(files, ArtifactSrc(a), outcome)
            THEN Reject(E("copy", a, "throw"))
            ELSE Continue(E("copy", a, IF files[ArtifactSrc(a)].exists THEN "done" ELSE "skip"),
                          IF a < 4 THEN At("pac_copy", a + 1) ELSE At("return", 0))
  /\ UNCHANGED <<value, licenses, inflight, calls, merges>>
  /\ UNCHANGED hookFrame

\* fs.copyFileSync(artifact a under __dirname, buildPath/<its name>).
PAC_Copy(a) ==
  /\ pc = At("pac_copy", a)
  /\ \E outcome \in CopyOutcomes :
       /\ files' = CopyFileSync(files, ArtifactSrc(a), ArtifactDst(a), outcome)
       /\ IF CopyThrows(files, ArtifactSrc(a), outcome)
            THEN Reject(E("copy", a, "throw"))
            ELSE Continue(E("copy", a, "done"),
                          IF a < 4 THEN At("pac_copy", a + 1) ELSE At("return", 0))
  /\ UNCHANGED <<value, licenses, inflight, calls, merges>>
  /\ UNCHANGED hookFrame

\* ---------------------------------------------------------- specification

Next ==
  \/ Load
  \/ EnterHook
  \/ Return
  \/ Finish
  \/ NewInvocation
  \/ \E i \in 1..2 : GA_CompileStart(i)
  \/ \E i \in 1..2 : GA_CompileSettle(i)
  \/ \E i \in 1..2 : GA_Write(i)
  \/ GA_BuildStart
  \/ GA_BuildSettle
  \/ PP_Invoke
  \/ PP_Settle
  \/ \E k \in 1..3 : PAC_Read(k)
  \/ PAC_WriteLicense
  \/ \E a \in Artifacts : PAC_Copy(a)

Spec == Init /\ [][Next]_vars

\* ----------------------------------------------------------------- helpers

Range(s) == {s[n] : n \in 1..Len(s)}

IsPrefix(s, t) == Len(s) <= Len(t) /\ SubSeq(t, 1, Len(s)) = s

Last(s) == s[Len(s)]

\* The text a file holds, as a read of it returns it.
Text(f) == Decode(f.data)

Done == pc = At("done", 0)

Thrown == {e \in Range(log) : e.ev = "throw"}

\* The log without the throw that ended it.
Steps == IF log # <<>> /\ Last(log).ev = "throw" THEN SubSeq(log, 1, Len(log) - 1) ELSE log

\* The events of a generateAssets that returns.
GenerateAssetsLog ==
  <<E("generateAssets", 0, "enter"),
    E("compile", 1, "start"), E("compile", 1, "end"), E("write", 1, "done"),
    E("compile", 2, "start"), E("compile", 2, "end"), E("write", 2, "done"),
    E("build", 0, "start"), E("build", 0, "end"),
    E("generateAssets", 0, "exit")>>

\* ------------------------------------------------------------------ claims

\* C1: in every build invocation the hooks run in the order generateAssets,
\* prePackage, packageAfterCopy; each is entered at most once and only after
\* the one before it has returned with nothing of it still running; no event
\* happens twice (no loop, no retry); a run that is not over can take a step,
\* and a run that is over ended in success with all three hooks completed or
\* in an abort.
HooksRunOnceInOrder ==
  /\ \A h \in DOMAIN entered : entered[h] <= 1
  /\ IsPrefix(completed, <<"generateAssets", "prePackage", "packageAfterCopy">>)
  /\ IsPrefix(SelectSeq(log, LAMBDA e : e.ev \in {"enter", "exit"}),
              <<E("generateAssets", 0, "enter"), E("generateAssets", 0, "exit"),
                E("prePackage", 0, "enter"), E("prePackage", 0, "exit"),
                E("packageAfterCopy", 0, "enter"), E("packageAfterCopy", 0, "exit")>>)
  /\ \A h \in DOMAIN entered :
       (log # <<>> /\ Last(log) = E(h, 0, "enter")) => inflight = {}
  /\ \A m, n \in 1..Len(log) : m # n => log[m] # log[n]
  /\ Len(log) <= 24
  /\ ~Done => status = "running" /\ ENABLED Next
  /\ Done => \/ status = "success"
                  /\ completed = <<"generateAssets", "prePackage", "packageAfterCopy">>
             \/ status = "aborted" /\ Thrown # {}
  /\ status = "success" => Done

\* A build that ended in success, all three hooks completed.
HooksRunOnceInOrderWitness ==
  /\ Done
  /\ status = "success"
  /\ \A h \in {"generateAssets", "prePackage", "packageAfterCopy"} : entered[h] = 1

\* C2: within generateAssets the steps are compile 1, write 1, compile 2,
\* write 2, build, one at a time; when the build step has begun both interface
\* files hold the compiler's output; the hook returns only after the build ended.
GenerateAssetsSequential ==
  /\ IsPrefix(SubSeq(Steps, 1, IF Len(Steps) < 10 THEN Len(Steps) ELSE 10),
              GenerateAssetsLog)
  /\ Cardinality(inflight) <= 1
  /\ (stage = 1 /\ E("build", 0, "start") \in Range(log)) =>
       \A i \in 1..2 :
         /\ E("compile", i, "end") \in Range(log)
         /\ files[IfacePath(cwd, i)] =
              File(Encode(Compiled(files[SchemaPath(cwd, i)].data)))
  /\ pc = At("ga_awaitbuild", 0) => inflight = {E("build", 0, "start")}
  /\ E("generateAssets", 0, "exit") \in Range(log) =>
       E("build", 0, "end") \in Range(log)
  /\ (stage = 1 /\ pc = At("return", 0)) =>
       E("build", 0, "end") \in Range(log) /\ inflight = {}

\* generateAssets returned over interface files an earlier build had left.
GenerateAssetsSequentialWitness ==
  /\ E("generateAssets", 0, "exit") \in Range(log)
  /\ run = 1
  /\ orig[IfacePath(cwd, 1)] = File(StaleData)

\* Whether a file's bytes are text: no invalid byte among them.
IsText(f) == BadByte \notin Range(f.data)

\* C3: after a successful packageAfterCopy the framework license file holds
\* own + "\n\n- - -\n\n" + wrapped + "\n\n- - -\n\n" + framework, the three
\* being the texts the license files held when the hook was entered (empty
\* ones included): as text always, and byte for byte when the three files
\* held text.
LicenseFileMerged ==
  E("packageAfterCopy", 0, "exit") \in Range(log) =>
    LET sep == <<"\n", "\n", "-", " ", "-", " ", "-", "\n", "\n">>
        own == snap[<<"proj", "LICENSE">>]
        wrapped == snap[<<"proj", "komorebi", "LICENSE">>]
        framework == snap[<<"tmp", "Komorebi UI-win32-x64", "LICENSE">>]
        merged == files[<<"tmp", "Komorebi UI-win32-x64", "LICENSE">>]
    IN /\ merged.exists
       /\ Text(merged) = Text(own) \o sep \o Text(wrapped) \o sep \o Text(framework)
       /\ (IsText(own) /\ IsText(wrapped) /\ IsText(framework)) =>
            merged.data = own.data \o sep \o wrapped.data \o sep \o framework.data

\* A successful packageAfterCopy over an empty own license, a one-character
\* wrapped license and an empty framework license.
LicenseFileMergedWitness ==
  /\ E("packageAfterCopy", 0, "exit") \in Range(log)
  /\ snap[OwnLicensePath] = File(<<>>)
  /\ snap[KomorebiLicensePath] = File(<<"a">>)
  /\ snap[ElectronLicensePath] = File(<<>>)

\* C4: when an artifact source is absent as packageAfterCopy is entered, its
\* destination in the staging directory is left as it was (not created, not
\* modified) and the hook does not return: the run ends in an abort.
MissingArtifactFailsHook ==
  \A a \in Artifacts :
    (entered["packageAfterCopy"] = 1 /\ ~snap[ArtifactSrc(a)].exists) =>
      /\ files[ArtifactDst(a)] = snap[ArtifactDst(a)]
      /\ E("packageAfterCopy", 0, "exit") \notin Range(log)
      /\ E("copy", a, "done") \notin Range(log)
      /\ status # "success"
      /\ Done => status = "aborted"

\* The third artifact is missing: the hook threw at its copy, after the first
\* two were copied into the staging directory.
MissingArtifactFailsHookWitness ==
  /\ entered["packageAfterCopy"] = 1
  /\ ~snap[ArtifactSrc(3)].exists
  /\ Done
  /\ status = "aborted"
  /\ Last(log) = E("copy", 3, "throw")
  /\ files[ArtifactDst(1)] = File(ArtifactData(1))
  /\ files[ArtifactDst(3)] = snap[ArtifactDst(3)]

\* C5, as claimed: on a target platform other than Windows prePackage makes
\* no external invocation.
PrePackageOnlyOnWindows ==
  platform # "win32" =>
    /\ calls = <<>>
    /\ E("script", 0, "start") \notin Range(log)

\* C5, amended: prePackage invokes the platform script on every target
\* platform, Windows or not (it never reads its platform argument), and the
\* hook itself changes no file on any of them.
PrePackageOnEveryPlatform ==
  /\ (E("prePackage", 0, "enter") \in Range(log) /\ pc # At("pp_invoke", 0)) =>
       /\ Len(calls) = 1
       /\ calls[1].script = "prePackage.ps1"
       /\ E("script", 0, "start") \in Range(log)
  /\ (stage = 2 /\ entered["prePackage"] = 1) => files = snap

\* prePackage returned in a build for Linux, the script invoked.
PrePackageOnEveryPlatformWitness ==
  /\ platform = "linux"
  /\ E("prePackage", 0, "exit") \in Range(log)
  /\ Len(calls) = 1

\* C6: prePackage invokes prePackage.ps1 exactly once, its argument string
\* "-Folder " followed by the path of the output folder under the working
\* directory as it is; a failed script (non-zero exit, as when that folder
\* does not exist) fails the hook, which returns only after an exit of 0.
PrePackagePropagatesFailure ==
  /\ Len(calls) <= 1
  /\ (E("prePackage", 0, "enter") \in Range(log) /\ pc # At("pp_invoke", 0)) =>
       calls = << [script |-> "prePackage.ps1",
                   args |-> <<"-", "F", "o", "l", "d", "e", "r", " ">>
                              \o PathString(cwd \o <<"out", "Komorebi UI-win32-x64">>)] >>
  /\ \A e \in Range(log) :
       (e.op = "script" /\ e.ev # "start" /\ e.i # 0) =>
         /\ e.ev = "throw"
         /\ status = "aborted"
         /\ E("prePackage", 0, "exit") \notin Range(log)
  /\ E("prePackage", 0, "exit") \in Range(log) =>
       /\ E("script", 0, "end") \in Range(log)
       /\ E("script", 0, "start") \notin inflight
       /\ files[cwd \o <<"out", "Komorebi UI-win32-x64">>].exists

\* The script exited with 1 in a build run from a directory with a space in
\* its name: the run is aborted.
PrePackagePropagatesFailureWitness ==
  /\ cwd = <<"ci", "work dir">>
  /\ Len(calls) = 1
  /\ log # <<>>
  /\ Last(log) = E("script", 1, "throw")
  /\ status = "aborted"

\* C7: a throw is the last event of its invocation (no later statement, no
\* later hook) and the run is then aborted, never running on or succeeding;
\* nothing is rolled back: every write and copy done before the throw keeps
\* its new content, and the staging files whose copy was not reached are as
\* they were when packageAfterCopy was entered.
AbortKeepsWhatWasWritten ==
  /\ \A n \in 1..Len(log) : log[n].ev = "throw" => n = Len(log)
  /\ Thrown # {} <=> status = "aborted"
  /\ status = "aborted" => Done /\ completed # Lifecycle
  /\ \A i \in 1..2 :
       E("write", i, "done") \in Range(log) =>
         files[IfacePath(cwd, i)] = File(Encode(Compiled(files[SchemaPath(cwd, i)].data)))
  /\ E("merge", 0, "done") \in Range(log) =>
       Text(files[ElectronLicensePath]) =
         Text(snap[OwnLicensePath]) \o SEP \o Text(snap[KomorebiLicensePath])
           \o SEP \o Text(snap[ElectronLicensePath])
  /\ \A a \in Artifacts :
       /\ E("copy", a, "done") \in Range(log) =>
            files[ArtifactDst(a)] = File(files[ArtifactSrc(a)].data)
       /\ (entered["packageAfterCopy"] = 1 /\ E("copy", a, "done") \notin Range(log)
             /\ E("copy", a, "throw") \notin Range(log)) =>
            files[ArtifactDst(a)] = snap[ArtifactDst(a)]

\* The copy of the third artifact threw: the license file is merged, the first
\* two artifacts are in the staging directory, the fourth is not.
AbortKeepsWhatWasWrittenWitness ==
  /\ status = "aborted"
  /\ Last(log) = E("copy", 3, "throw")
  /\ E("merge", 0, "done") \in Range(log)
  /\ files[ElectronLicensePath] # snap[ElectronLicensePath]
  /\ files[ArtifactDst(1)] = File(ArtifactData(1))
  /\ files[ArtifactDst(2)] = File(ArtifactData(2))
  /\ ~files[ArtifactDst(4)].exists

\* The tree the first invocation started from was complete: both schemas, the
\* three licenses, the four artifacts.
CompleteFixture ==
  /\ \A i \in 1..2 : orig[SchemaPath(cwd, i)].exists
  /\ \A k \in 1..3 : orig[LicensePaths[k]].exists
  /\ \A a \in Artifacts : orig[ArtifactSrc(a)].exists

\* C8: from a complete fixture with version "2.0.0-beta", the first run of the
\* three hooks that ends in success leaves the two generated definition files,
\* the license file merged from the three original texts with two separators,
\* the four artifacts in the staging directory under their own names, and the
\* prerelease flag true.
EndToEndFromFixture ==
  (/\ CompleteFixture
   /\ version = <<"2", ".", "0", ".", "0", "-", "b", "e", "t", "a">>
   /\ run = 1
   /\ status = "success") =>
    LET own == Text(orig[OwnLicensePath])
        wrapped == Text(orig[KomorebiLicensePath])
        framework == Text(orig[ElectronLicensePath])
        merged == Text(files[ElectronLicensePath])
        staging == <<"tmp", "Komorebi UI-win32-x64", "resources", "app">>
    IN /\ completed = <<"generateAssets", "prePackage", "packageAfterCopy">>
       /\ \A i \in 1..2 :
            files[IfacePath(cwd, i)] = File(Encode(Compiled(orig[SchemaPath(cwd, i)].data)))
       /\ files[ElectronLicensePath].exists
       /\ merged = own \o SEP \o wrapped \o SEP \o framework
       /\ Len(merged) = Len(own) + Len(wrapped) + Len(framework) + 2 * 9
       /\ merges = 1
       /\ \A a \in Artifacts :
            files[staging \o <<Last(ArtifactSrc(a))>>] = File(orig[ArtifactSrc(a)].data)
       /\ {p \in Paths : Len(p) > 4 /\ SubSeq(p, 1, 4) = staging /\ files[p].exists} =
            {staging \o <<Last(ArtifactSrc(a))>> : a \in Artifacts}
       /\ loaded
       /\ prerelease = TRUE

\* A first run over the complete fixture that ended in success, the staging
\* directory empty at its start.
EndToEndFromFixtureWitness ==
  /\ CompleteFixture
  /\ version = FixtureVersion
  /\ run = 1
  /\ status = "success"
  /\ \A a \in Artifacts : ~orig[ArtifactDst(a)].exists
  /\ merges = 1

\* C9: once the configuration is loaded the prerelease flag is true exactly
\* when "beta" occurs somewhere in the version string ("1.2.0-beta.1" and
\* "1.2.0-betax": true; "1.2.0": false), and it keeps that value through
\* every statement of every hook.
PrereleaseIffVersionHasBeta ==
  loaded =>
    /\ prerelease =
         (\E n \in 1..Len(version) :
            /\ n + 3 <= Len(version)
            /\ version[n] = "b" /\ version[n + 1] = "e"
            /\ version[n + 2] = "t" /\ version[n + 3] = "a")
    /\ version = <<"1", ".", "2", ".", "0", "-", "b", "e", "t", "a", ".", "1">> => prerelease
    /\ version = <<"1", ".", "2", ".", "0", "-", "b", "e", "t", "a", "x">> => prerelease
    /\ version = <<"1", ".", "2", ".", "0">> => ~prerelease

\* The three hooks ran to success under version "1.2.0-betax", the flag true.
PrereleaseIffVersionHasBetaWitness ==
  /\ version = <<"1", ".", "2", ".", "0", "-", "b", "e", "t", "a", "x">>
  /\ loaded
  /\ prerelease
  /\ status = "success"

RECURSIVE Repeat(_, _)
Repeat(block, k) == IF k = 0 THEN <<>> ELSE block \o Repeat(block, k - 1)

\* C10: the three license reads precede the write, so (i) when a license read
\* throws, every file is as it was when the hook was entered; and (ii) each
\* successful packageAfterCopy prepends own + SEP + wrapped + SEP to what the
\* framework license file held before: after k builds that all succeeded, the
\* file holds k copies of that block before its original text.
LicenseReadsFirstAndMergeRepeats ==
  LET block == Text(files[OwnLicensePath]) \o SEP \o Text(files[KomorebiLicensePath]) \o SEP
  IN /\ \A k \in 1..3 :
          (log # <<>> /\ Last(log) = E("read", k, "throw")) =>
            /\ files = snap
            /\ E("merge", 0, "done") \notin Range(log)
     /\ \A n \in 1..Len(log) :
          log[n].op = "merge" =>
            /\ n > 3
            /\ \A k \in 1..3 : log[n - 4 + k] = E("read", k, "done")
     /\ E("packageAfterCopy", 0, "exit") \in Range(log) =>
          Text(files[ElectronLicensePath]) = block \o Text(snap[ElectronLicensePath])
     /\ (aborts = 0 /\ status = "success") =>
          /\ merges = run
          /\ Text(files[ElectronLicensePath]) =
               Repeat(block, run) \o Text(orig[ElectronLicensePath])

\* Two builds in a row succeeded: the license file holds own and wrapped twice.
LicenseReadsFirstAndMergeRepeatsWitness ==
  /\ run = 2
  /\ aborts = 0
  /\ status = "success"
  /\ Text(orig[OwnLicensePath]) # <<>>
  /\ Len(files[ElectronLicensePath].data) =
       2 * (Len(orig[OwnLicensePath].data) + Len(orig[KomorebiLicensePath].data) + 18)
         + Len(orig[ElectronLicensePath].data)

====
